---- MODULE Spec2Model ----
(***************************************************************************)
(* Model of dn-backend (src/src/main.rs): the upload pipeline              *)
(* (multipart ingest -> IPFS add -> report index append) and the report    *)
(* lookup, run by concurrent request handlers that share one               *)
(* Mutex<HashMap<String, Vec<(String, String)>>>.                          *)
(*                                                                         *)
(* Strings that the code decodes from bytes (the wallet address) are       *)
(* sequences of code points; byte chunks are sequences of byte values.     *)
(* An Option is a sequence of length 0 (None) or 1 (Some).                 *)
(***************************************************************************)
EXTENDS Integers, Sequences, FiniteSets, TLC

\* ------------------------------------------------------------------ bounds
NumUploads == 2     \* upload requests in flight
NumLookups == 1     \* lookup requests in flight
MaxParts == 2       \* multipart parts of one rich request body
MaxChunks == 2      \* chunks of one multipart field
MaxOthers == 1      \* unrecognized fields beside the identifier and the file

Uploads == 1..NumUploads
Lookups == 1..NumLookups

\* ------------------------------------------------------------------ options
None == << >>
Some(v) == << v >>
IsSome(o) == Len(o) = 1
Get(o) == o[1]

\* ------------------------------------------------------------------ text
REPLACEMENT == 65533

\* String::from_utf8_lossy on a byte sequence: an ASCII byte is its own
\* character, a two-byte lead followed by a continuation byte is one
\* character, any other byte is replaced by U+FFFD.  (Leads of three- and
\* four-byte sequences do not occur in the byte values used here.)
RECURSIVE from_utf8_lossy(_)
from_utf8_lossy(bytes) ==
    IF bytes = << >> THEN << >>
    ELSE LET b == Head(bytes)
             rest == Tail(bytes)
         IN  IF b < 128 THEN << b >> \o from_utf8_lossy(rest)
             ELSE IF /\ b >= 194 /\ b <= 223
                     /\ rest # << >>
                     /\ Head(rest) >= 128 /\ Head(rest) <= 191
                  THEN << (b - 192) * 64 + (Head(rest) - 128) >>
                           \o from_utf8_lossy(Tail(rest))
                  ELSE << REPLACEMENT >> \o from_utf8_lossy(rest)

\* bytes.extend_from_slice(&chunk) over all chunks of the file field
RECURSIVE ExtendAll(_)
ExtendAll(chunks) ==
    IF chunks = << >> THEN << >> ELSE Head(chunks) \o ExtendAll(Tail(chunks))

\* ------------------------------------------------------------------ messages
MsgParse == "Error parsing field"
MsgNoName == "File name is missing."
MsgNoData == "File data is missing."
MsgNoWallet == "Target wallet address is required."
MsgIpfsStatus == "IPFS upload failed with status"
MsgIpfsSend == "Failed to upload to IPFS"
MsgNoCid == "Failed to get CID from IPFS response."
MsgOk == "File uploaded to IPFS and recorded (simulated)"
MsgNoReports == "No reports found for this wallet"

\* UploadResponse with its HTTP status
UploadResponse(status, success, message, c, name) ==
    [status |-> status, success |-> success, message |-> message,
     cid |-> c, file_name |-> name]

\* ReportEntry
ReportEntry(c, name) == [cid |-> c, file_name |-> name]

\* GetReportsResponse with its HTTP status
GetReportsResponse(status, success, list, message) ==
    [status |-> status, success |-> success, reports |-> list, message |-> message]

\* ------------------------------------------------------------------ inputs
\* One multipart part as the handler sees it.  ok = FALSE: payload.try_next()
\* yields Err (bad framing).  chunks: the Bytes items the field's stream
\* yields; fails = TRUE: the read after the last of them yields Err instead
\* of the end of the field.
Part(ok, name, filename, chunks, fails) ==
    [ok |-> ok, name |-> name, filename |-> filename, chunks |-> chunks,
     fails |-> fails]

BadPart == Part(FALSE, "", None, << >>, FALSE)
OtherPart == Part(TRUE, "note", None, << >>, FALSE)
WalletPart(chunks, fails) == Part(TRUE, "targetWalletAddress", None, chunks, fails)
FilePart(filename, chunks, fails) == Part(TRUE, "file", filename, chunks, fails)

\* sequences over S of length 0..n
RECURSIVE SeqsUpTo(_, _)
SeqsUpTo(S, n) ==
    IF n = 0 THEN { << >> }
    ELSE LET shorter == SeqsUpTo(S, n - 1)
         IN  shorter \cup { Append(s, x) : s \in shorter, x \in S }

WalletW == << 87 >>
WalletX == << 88 >>
FileNames == { "a.pdf", "b.pdf" }

\* the first n items of the stream that repeats the chunks of seq
Chunked(seq, n) == [i \in 1..n |-> seq[((i - 1) % Len(seq)) + 1]]

\* what an identifier field may deliver: up to MaxChunks chunks of "WXWX.."
\* or of "XWXW..", or one chunk that is not UTF-8
WalletContents ==
    { Chunked(seq, n) : seq \in { << WalletW, WalletX >>, << WalletX, WalletW >> },
                        n \in 0..MaxChunks }
    \cup { << << 255 >> >> }

\* what a file field may deliver: up to MaxChunks chunks
FileContents == { Chunked(<< << 1 >>, << 2 >> >>, n) : n \in 0..MaxChunks }

\* parts of the rich request bodies
RichParts ==
    { BadPart, OtherPart }
    \cup { WalletPart(cs, FALSE) : cs \in WalletContents }
    \cup { WalletPart(<< >>, TRUE) }
    \cup { FilePart(Some("a.pdf"), cs, FALSE) : cs \in FileContents }
    \cup { FilePart(None, << << 1 >> >>, FALSE),
           FilePart(Some("a.pdf"), << << 1 >> >>, TRUE) }
RichBodies == SeqsUpTo(RichParts, MaxParts)

\* request bodies with one identifier field, one file field and up to
\* MaxOthers unrecognized fields, in every arrival order
OrderWalletParts ==
    { WalletPart(cs, FALSE) : cs \in WalletContents } \cup { WalletPart(<< >>, TRUE) }
OrderFileParts ==
    { FilePart(Some("a.pdf"), << << 1 >> >>, FALSE),
      FilePart(None, << << 1 >> >>, FALSE),
      FilePart(Some("a.pdf"), << << 1 >> >>, TRUE) }
OrderBody(n, i, j, w, f) ==
    [k \in 1..n |-> IF k = i THEN w ELSE IF k = j THEN f ELSE OtherPart]
OrderBodies ==
    UNION { { OrderBody(n, ij[1], ij[2], w, f) :
                  ij \in { x \in (1..n) \X (1..n) : x[1] # x[2] },
                  w \in OrderWalletParts, f \in OrderFileParts } :
            n \in 2..(MaxOthers + 2) }

\* the well-formed request bodies of the concurrent uploads
PlainBody(w, fn) == << WalletPart(<< w >>, FALSE), FilePart(Some(fn), << << 1 >> >>, FALSE) >>
PlainBodies ==
    { PlainBody(WalletW, "a.pdf"), PlainBody(WalletW, "b.pdf"), PlainBody(WalletX, "a.pdf") }

\* path parameters of the lookups
Wallets == { WalletW, WalletX }

\* What the IPFS API call comes back with: the connection fails (sent =
\* FALSE), or an HTTP status and a body.  A body either is no JSON at all or
\* is a JSON object, given by the set of its fields.
JField(name, t, v) == [name |-> name, t |-> t, v |-> v]
JsonBody(valid, fields) == [valid |-> valid, fields |-> fields]
NotJson == JsonBody(FALSE, { })
Cids == { "Qm1", "Qm2" }
HashBody(c) == JsonBody(TRUE, { JField("Name", "str", "a.pdf"), JField("Hash", "str", c) })
JsonBodies ==
    { JsonBody(TRUE, { JField("Name", "str", "a.pdf") }),
      JsonBody(TRUE, { JField("Hash", "num", "5") }),
      JsonBody(TRUE, { JField("Hash", "str", "") }) }
    \cup { HashBody(c) : c \in Cids }
IpfsOutcome(sent, status, b) == [sent |-> sent, status |-> status, body |-> b]
IpfsOutcomes ==
    { IpfsOutcome(FALSE, 0, NotJson) }
    \cup { IpfsOutcome(TRUE, 200, NotJson), IpfsOutcome(TRUE, 500, HashBody("Qm1")) }
    \cup { IpfsOutcome(TRUE, 200, b) : b \in JsonBodies }

\* ------------------------------------------------------------------ state
VARIABLES
    reports,                \* AppState.reports: the map under the Mutex
    lock,                   \* holder of the Mutex, or NoHolder
    body,                   \* per upload: the multipart body the client sends
    pos,                    \* per upload: parts of the body consumed so far
    pc,                     \* per upload: where the handler is
    target_wallet_address,  \* per upload: Option<String>
    file_data,              \* per upload: Option<Vec<u8>>
    file_name,              \* per upload: Option<String>
    cid,                    \* per upload: the CID taken from the IPFS response
    resp,                   \* per upload: the HTTP response, once sent
    ipfsReq,                \* per upload: the forms posted to the IPFS API
    ipfsRes,                \* per upload: what the IPFS API answered
    appendedAt,             \* per upload: index of the entry it pushed, or 0
    gpc,                    \* per lookup: where the handler is
    wallet_address,         \* per lookup: the path parameter
    gresp,                  \* per lookup: the HTTP response, once sent
    before                  \* per lookup: uploads answered 200 when it locked

uvars == << body, pos, pc, target_wallet_address, file_data, file_name, cid,
            resp, ipfsReq, ipfsRes, appendedAt >>
gvars == << gpc, wallet_address, gresp, before >>
vars == << reports, lock, uvars, gvars >>

NoHolder == << >>
UploadHolder(u) == << "upload", u >>
LookupHolder(l) == << "get", l >>

\* ------------------------------------------------------------------ ingest
\* lines 71-76: one read of the identifier field; the first chunk, if there
\* is one, replaces the address, otherwise the address is kept
ReadWallet(old, p) ==
    IF p.chunks # << >> THEN Some(from_utf8_lossy(Head(p.chunks))) ELSE old

\* the unwrap() of a field read panics: the identifier field's only read
\* fails, or any read of the file field fails
ReadPanics(p) ==
    \/ p.name = "targetWalletAddress" /\ p.chunks = << >> /\ p.fails
    \/ p.name = "file" /\ p.fails

\* Validate with the owner checked before the file
ValidateWalletFirst(fn, fd, twa) ==
    IF ~IsSome(twa) THEN Some(UploadResponse(400, FALSE, MsgNoWallet, None, fn))
    ELSE IF ~IsSome(fn) THEN Some(UploadResponse(400, FALSE, MsgNoName, None, None))
    ELSE IF ~IsSome(fd) THEN Some(UploadResponse(400, FALSE, MsgNoData, None, fn))
    ELSE None

\* Validate with the file-data rejection repeated for the missing owner
ValidateWalletAsData(fn, fd, twa) ==
    IF ~IsSome(fn) THEN Some(UploadResponse(400, FALSE, MsgNoName, None, None))
    ELSE IF ~IsSome(fd) THEN Some(UploadResponse(400, FALSE, MsgNoData, None, fn))
    ELSE IF ~IsSome(twa) THEN Some(UploadResponse(400, FALSE, MsgNoData, None, fn))
    ELSE None

\* lines 94-132: Some(rejection) or None when all three fields are there
Validate(fn, fd, twa) ==
    IF ~IsSome(fn) THEN Some(UploadResponse(400, FALSE, MsgNoName, None, None))
    ELSE IF ~IsSome(fd) THEN Some(UploadResponse(400, FALSE, MsgNoData, None, fn))
    ELSE IF ~IsSome(twa) THEN Some(UploadResponse(400, FALSE, MsgNoWallet, None, fn))
    ELSE None

\* lines 136-139: the form posted to the IPFS API
IpfsForm(fn, fd) == [part |-> "file", file_name |-> fn, bytes |-> fd]

\* r.status().is_success()
IsSuccess(status) == status >= 200 /\ status <= 299

\* line 176: res_json["Hash"].as_str().unwrap_or(""), where a body that is
\* no JSON has become Value::Null (lines 160-163)
HashOf(b) ==
    IF b.valid /\ \E f \in b.fields : f.name = "Hash" /\ f.t = "str"
    THEN (CHOOSE f \in b.fields : f.name = "Hash" /\ f.t = "str").v
    ELSE ""

\* IpfsFailure without the emptiness check of line 178
IpfsFailureNoCidCheck(out, fn) ==
    IF ~out.sent THEN Some(UploadResponse(500, FALSE, MsgIpfsSend, None, Some(fn)))
    ELSE IF ~IsSuccess(out.status)
         THEN Some(UploadResponse(500, FALSE, MsgIpfsStatus, None, Some(fn)))
    ELSE None

\* IpfsFailure without the status check of line 149
IpfsFailureNoStatusCheck(out, fn) ==
    IF ~out.sent THEN Some(UploadResponse(500, FALSE, MsgIpfsSend, None, Some(fn)))
    ELSE IF HashOf(out.body) = ""
         THEN Some(UploadResponse(500, FALSE, MsgNoCid, None, Some(fn)))
    ELSE None

\* lines 147-186: Some(failure response) or None when a CID was obtained
IpfsFailure(out, fn) ==
    IF ~out.sent THEN Some(UploadResponse(500, FALSE, MsgIpfsSend, None, Some(fn)))
    ELSE IF ~IsSuccess(out.status)
         THEN Some(UploadResponse(500, FALSE, MsgIpfsStatus, None, Some(fn)))
    ELSE IF HashOf(out.body) = ""
         THEN Some(UploadResponse(500, FALSE, MsgNoCid, None, Some(fn)))
    ELSE None

\* ------------------------------------------------------------------ ingest as a function
\* lines 48-50: the three accumulators before the first part
EmptySlots == [twa |-> None, fd |-> None, fn |-> None]

\* lines 70-90: what one field that was read does to the accumulators
IngestField(acc, p) ==
    IF p.name = "targetWalletAddress" THEN [acc EXCEPT !.twa = ReadWallet(@, p)]
    ELSE IF p.name = "file"
         THEN [acc EXCEPT !.fn = p.filename, !.fd = Some(ExtendAll(p.chunks))]
    ELSE acc

\* how ingest ends: with a rejection (the 400 response), with a panic, or
\* with the validated owner, filename and bytes
IngestResult(kind, response, acc) ==
    [kind |-> kind, response |-> response, owner |-> acc.twa,
     filename |-> acc.fn, bytes |-> acc.fd]
Rejected(response) == IngestResult("rejected", Some(response), EmptySlots)
Panicked == IngestResult("panicked", None, EmptySlots)
Valid(acc) == IngestResult("valid", None, acc)

\* lines 52-132: the loop over the parts of body b, then the validation
RECURSIVE IngestFrom(_, _)
IngestFrom(acc, b) ==
    IF b = << >>
    THEN IF IsSome(Validate(acc.fn, acc.fd, acc.twa))
         THEN Rejected(Get(Validate(acc.fn, acc.fd, acc.twa)))
         ELSE Valid(acc)
    ELSE IF ~Head(b).ok
         THEN Rejected(UploadResponse(400, FALSE, MsgParse, None, None))
    ELSE IF ReadPanics(Head(b)) THEN Panicked
    ELSE IngestFrom(IngestField(acc, Head(b)), Tail(b))

Ingest(b) == IngestFrom(EmptySlots, b)

\* ------------------------------------------------------------------ index
EmptyMap == [w \in { } |-> << >>]

\* OrInsert as reports_map.insert(wallet, Vec::new()): an existing vector is
\* replaced
OrInsertFresh(map, w) == [x \in DOMAIN map \cup { w } |-> IF x = w THEN << >> ELSE map[x]]

\* line 192: reports_map.entry(wallet).or_insert_with(Vec::new)
OrInsert(map, w) == IF w \in DOMAIN map THEN map ELSE map @@ (w :> << >>)

\* PushReport as user_reports.insert(0, (cid, file_name))
PushReportFront(map, w, c, fn) == [map EXCEPT ![w] = << << c, fn >> >> \o @]

\* PushReport that skips a pair the vector already holds
PushReportDedup(map, w, c, fn) ==
    IF \E i \in 1..Len(map[w]) : map[w][i] = << c, fn >>
    THEN map
    ELSE [map EXCEPT ![w] = Append(@, << c, fn >>)]

\* line 193: user_reports.push((cid, file_name))
PushReport(map, w, c, fn) == [map EXCEPT ![w] = Append(@, << c, fn >>)]

\* ReportsList with the tuple's components taken the other way round
ReportsListSwapped(tuples) ==
    [i \in 1..Len(tuples) |-> ReportEntry(tuples[i][2], tuples[i][1])]

\* ReportsList built back to front
ReportsListReversed(tuples) ==
    [i \in 1..Len(tuples) |->
        ReportEntry(tuples[Len(tuples) + 1 - i][1], tuples[Len(tuples) + 1 - i][2])]

\* lines 231-236: the tuples as ReportEntry structs, in order
ReportsList(tuples) == [i \in 1..Len(tuples) |-> ReportEntry(tuples[i][1], tuples[i][2])]

\* lines 225-252
LookupResponse(map, w) ==
    IF w \in DOMAIN map
    THEN GetReportsResponse(200, TRUE, ReportsList(map[w]), None)
    ELSE GetReportsResponse(200, TRUE, << >>, Some(MsgNoReports))


\* ------------------------------------------------------------------ upload_report
CurrentPart(u) == body[u][pos[u] + 1]

AtPart(u) == pc[u] = "parts" /\ pos[u] < Len(body[u])

\* lines 53-65: the next part is malformed: 400 with the parser's diagnostic
ParseError(u) ==
    /\ AtPart(u)
    /\ ~CurrentPart(u).ok
    /\ pos' = [pos EXCEPT ![u] = @ + 1]
    /\ pc' = [pc EXCEPT ![u] = "done"]
    /\ resp' = [resp EXCEPT ![u] = Some(UploadResponse(400, FALSE, MsgParse, None, None))]
    /\ UNCHANGED << reports, lock, body, target_wallet_address, file_data, file_name,
                    cid, ipfsReq, ipfsRes, appendedAt, gvars >>

\* lines 73 and 82: a field read fails and unwrap() panics; the request ends
\* without a response.  Line 79 has run when the file field's read fails.
ReadPanic(u) ==
    /\ AtPart(u)
    /\ CurrentPart(u).ok
    /\ ReadPanics(CurrentPart(u))
    /\ pos' = [pos EXCEPT ![u] = @ + 1]
    /\ pc' = [pc EXCEPT ![u] = "panicked"]
    /\ file_name' = [file_name EXCEPT ![u] =
                        IF CurrentPart(u).name = "file" THEN CurrentPart(u).filename ELSE @]
    /\ UNCHANGED << reports, lock, body, target_wallet_address, file_data, cid, resp,
                    ipfsReq, ipfsRes, appendedAt, gvars >>

\* lines 71-76
ReadWalletField(u) ==
    /\ AtPart(u)
    /\ CurrentPart(u).ok
    /\ ~ReadPanics(CurrentPart(u))
    /\ CurrentPart(u).name = "targetWalletAddress"
    /\ pos' = [pos EXCEPT ![u] = @ + 1]
    /\ target_wallet_address' =
           [target_wallet_address EXCEPT ![u] = ReadWallet(@, CurrentPart(u))]
    /\ UNCHANGED << reports, lock, body, pc, file_data, file_name, cid, resp,
                    ipfsReq, ipfsRes, appendedAt, gvars >>

\* lines 77-86
ReadFileField(u) ==
    /\ AtPart(u)
    /\ CurrentPart(u).ok
    /\ ~ReadPanics(CurrentPart(u))
    /\ CurrentPart(u).name = "file"
    /\ pos' = [pos EXCEPT ![u] = @ + 1]
    /\ file_name' = [file_name EXCEPT ![u] = CurrentPart(u).filename]
    /\ file_data' = [file_data EXCEPT ![u] = Some(ExtendAll(CurrentPart(u).chunks))]
    /\ UNCHANGED << reports, lock, body, pc, target_wallet_address, cid, resp,
                    ipfsReq, ipfsRes, appendedAt, gvars >>

\* SkipField as `_ => break`: an unrecognized field ends the loop
SkipFieldStops(u) ==
    /\ AtPart(u)
    /\ CurrentPart(u).ok
    /\ CurrentPart(u).name \notin { "targetWalletAddress", "file" }
    /\ pos' = [pos EXCEPT ![u] = Len(body[u])]
    /\ UNCHANGED << reports, lock, body, pc, target_wallet_address, file_data,
                    file_name, cid, resp, ipfsReq, ipfsRes, appendedAt, gvars >>

\* lines 87-90
SkipField(u) ==
    /\ AtPart(u)
    /\ CurrentPart(u).ok
    /\ CurrentPart(u).name \notin { "targetWalletAddress", "file" }
    /\ pos' = [pos EXCEPT ![u] = @ + 1]
    /\ UNCHANGED << reports, lock, body, pc, target_wallet_address, file_data,
                    file_name, cid, resp, ipfsReq, ipfsRes, appendedAt, gvars >>

AtEnd(u) == pc[u] = "parts" /\ pos[u] = Len(body[u])

\* lines 94-132, a required field is missing
Reject(u) ==
    /\ AtEnd(u)
    /\ IsSome(Validate(file_name[u], file_data[u], target_wallet_address[u]))
    /\ pc' = [pc EXCEPT ![u] = "done"]
    /\ resp' = [resp EXCEPT ![u] =
                   Validate(file_name[u], file_data[u], target_wallet_address[u])]
    /\ UNCHANGED << reports, lock, body, pos, target_wallet_address, file_data,
                    file_name, cid, ipfsReq, ipfsRes, appendedAt, gvars >>

\* Send with the index locked before the form is posted, the guard living
\* across the await
SendHoldingLock(u) ==
    /\ AtEnd(u)
    /\ ~IsSome(Validate(file_name[u], file_data[u], target_wallet_address[u]))
    /\ lock = NoHolder
    /\ lock' = UploadHolder(u)
    /\ pc' = [pc EXCEPT ![u] = "awaitIpfs"]
    /\ ipfsReq' = [ipfsReq EXCEPT ![u] =
                      Append(@, IpfsForm(Get(file_name[u]), Get(file_data[u])))]
    /\ UNCHANGED << reports, body, pos, target_wallet_address, file_data,
                    file_name, cid, resp, ipfsRes, appendedAt, gvars >>

\* lines 94-145, all fields are there: the form is posted and the handler
\* waits for the IPFS API
Send(u) ==
    /\ AtEnd(u)
    /\ ~IsSome(Validate(file_name[u], file_data[u], target_wallet_address[u]))
    /\ pc' = [pc EXCEPT ![u] = "awaitIpfs"]
    /\ ipfsReq' = [ipfsReq EXCEPT ![u] =
                      Append(@, IpfsForm(Get(file_name[u]), Get(file_data[u])))]
    /\ UNCHANGED << reports, lock, body, pos, target_wallet_address, file_data,
                    file_name, cid, resp, ipfsRes, appendedAt, gvars >>

\* IpfsFail with one retry: after the first failure the form is posted again
IpfsFailRetry(u) ==
    /\ pc[u] = "awaitIpfs"
    /\ \E out \in IpfsOutcomes :
          /\ IsSome(IpfsFailure(out, Get(file_name[u])))
          /\ ipfsRes' = [ipfsRes EXCEPT ![u] = Some(out)]
          /\ IF Len(ipfsReq[u]) < 2
             THEN /\ ipfsReq' = [ipfsReq EXCEPT ![u] =
                                    Append(@, IpfsForm(Get(file_name[u]), Get(file_data[u])))]
                  /\ UNCHANGED << pc, resp >>
             ELSE /\ resp' = [resp EXCEPT ![u] = IpfsFailure(out, Get(file_name[u]))]
                  /\ pc' = [pc EXCEPT ![u] = "done"]
                  /\ UNCHANGED ipfsReq
    /\ UNCHANGED << reports, lock, body, pos, target_wallet_address, file_data,
                    file_name, cid, appendedAt, gvars >>

\* lines 147-186, the store failed
IpfsFail(u) ==
    /\ pc[u] = "awaitIpfs"
    /\ \E out \in IpfsOutcomes :
          /\ IsSome(IpfsFailure(out, Get(file_name[u])))
          /\ ipfsRes' = [ipfsRes EXCEPT ![u] = Some(out)]
          /\ resp' = [resp EXCEPT ![u] = IpfsFailure(out, Get(file_name[u]))]
    /\ pc' = [pc EXCEPT ![u] = "done"]
    /\ UNCHANGED << reports, lock, body, pos, target_wallet_address, file_data,
                    file_name, cid, ipfsReq, appendedAt, gvars >>

\* lines 147-188, the store succeeded and returned a CID
IpfsOk(u) ==
    /\ pc[u] = "awaitIpfs"
    /\ \E out \in IpfsOutcomes :
          /\ ~IsSome(IpfsFailure(out, Get(file_name[u])))
          /\ ipfsRes' = [ipfsRes EXCEPT ![u] = Some(out)]
          /\ cid' = [cid EXCEPT ![u] = HashOf(out.body)]
    /\ pc' = [pc EXCEPT ![u] = "lock"]
    /\ UNCHANGED << reports, lock, body, pos, target_wallet_address, file_data,
                    file_name, resp, ipfsReq, appendedAt, gvars >>

\* Lock with the guard dropped right after or_insert_with: the push happens
\* outside the critical section
LockEntryOnly(u) ==
    /\ pc[u] = "lock"
    /\ lock = NoHolder
    /\ reports' = OrInsert(reports, Get(target_wallet_address[u]))
    /\ pc' = [pc EXCEPT ![u] = "push"]
    /\ UNCHANGED << lock, body, pos, target_wallet_address, file_data, file_name,
                    cid, resp, ipfsReq, ipfsRes, appendedAt, gvars >>

\* lines 191-192: app_state.reports.lock(), then the owner's vector is
\* looked up or created
Lock(u) ==
    /\ pc[u] = "lock"
    /\ lock = NoHolder
    /\ lock' = UploadHolder(u)
    /\ reports' = OrInsert(reports, Get(target_wallet_address[u]))
    /\ pc' = [pc EXCEPT ![u] = "push"]
    /\ UNCHANGED << body, pos, target_wallet_address, file_data, file_name,
                    cid, resp, ipfsReq, ipfsRes, appendedAt, gvars >>

\* line 193
Push(u) ==
    /\ pc[u] = "push"
    /\ reports' = PushReport(reports, Get(target_wallet_address[u]), cid[u],
                             Get(file_name[u]))
    /\ appendedAt' = [appendedAt EXCEPT ![u] =
                         Len(reports[Get(target_wallet_address[u])]) + 1]
    /\ pc' = [pc EXCEPT ![u] = "respond"]
    /\ UNCHANGED << lock, body, pos, target_wallet_address, file_data, file_name,
                    cid, resp, ipfsReq, ipfsRes, gvars >>

\* Respond with the guard leaked: the index stays locked after the return
RespondKeepsLock(u) ==
    /\ pc[u] = "respond"
    /\ resp' = [resp EXCEPT ![u] =
                   Some(UploadResponse(200, TRUE, MsgOk, Some(cid[u]), file_name[u]))]
    /\ pc' = [pc EXCEPT ![u] = "done"]
    /\ UNCHANGED << reports, lock, body, pos, target_wallet_address, file_data,
                    file_name, cid, ipfsReq, ipfsRes, appendedAt, gvars >>

\* lines 206-212: the success response; the guard is dropped on return
Respond(u) ==
    /\ pc[u] = "respond"
    /\ resp' = [resp EXCEPT ![u] =
                   Some(UploadResponse(200, TRUE, MsgOk, Some(cid[u]), file_name[u]))]
    /\ lock' = NoHolder
    /\ pc' = [pc EXCEPT ![u] = "done"]
    /\ UNCHANGED << reports, body, pos, target_wallet_address, file_data, file_name,
                    cid, ipfsReq, ipfsRes, appendedAt, gvars >>

\* ------------------------------------------------------------------ get_reports
Answered200(u) == pc[u] = "done" /\ IsSome(resp[u]) /\ Get(resp[u]).status = 200

\* lines 220-224: the path parameter, then app_state.reports.lock()
GetLock(l) ==
    /\ gpc[l] = "start"
    /\ lock = NoHolder
    /\ lock' = LookupHolder(l)
    /\ \E w \in Wallets : wallet_address' = [wallet_address EXCEPT ![l] = w]
    /\ before' = [before EXCEPT ![l] = { u \in Uploads : Answered200(u) }]
    /\ gpc' = [gpc EXCEPT ![l] = "read"]
    /\ UNCHANGED << reports, uvars, gresp >>

\* lines 225-253: the response; the guard is dropped on return
GetRespond(l) ==
    /\ gpc[l] = "read"
    /\ gresp' = [gresp EXCEPT ![l] = Some(LookupResponse(reports, wallet_address[l]))]
    /\ lock' = NoHolder
    /\ gpc' = [gpc EXCEPT ![l] = "done"]
    /\ UNCHANGED << reports, uvars, wallet_address, before >>

\* ------------------------------------------------------------------ specifications
\* lines 48-50 and 263-265: the state when the server starts, with the
\* requests its clients are about to send
InitWith(bodies) ==
    /\ reports = EmptyMap
    /\ lock = NoHolder
    /\ body \in bodies
    /\ pos = [u \in Uploads |-> 0]
    /\ pc = [u \in Uploads |-> "parts"]
    /\ target_wallet_address = [u \in Uploads |-> None]
    /\ file_data = [u \in Uploads |-> None]
    /\ file_name = [u \in Uploads |-> None]
    /\ cid = [u \in Uploads |-> ""]
    /\ resp = [u \in Uploads |-> None]
    /\ ipfsReq = [u \in Uploads |-> << >>]
    /\ ipfsRes = [u \in Uploads |-> None]
    /\ appendedAt = [u \in Uploads |-> 0]
    /\ gpc = [l \in Lookups |-> "start"]
    /\ wallet_address = [l \in Lookups |-> << >>]
    /\ gresp = [l \in Lookups |-> None]
    /\ before = [l \in Lookups |-> { }]

\* request bodies of concurrent uploads: the well-formed ones and one of
\* each kind of failure
ConcurrentBodies ==
    PlainBodies
    \cup { << BadPart >>, << OtherPart >>, << WalletPart(<< >>, TRUE) >> }

Init == InitWith([Uploads -> ConcurrentBodies])

\* one upload with any rich body beside uploads with an empty one
InitIngest ==
    InitWith({ [u \in Uploads |-> IF u = 1 THEN rich ELSE << >>] : rich \in RichBodies })

\* one upload with an identifier field, a file field and unrecognized
\* fields in some order, beside uploads whose only part is malformed
InitOrder ==
    InitWith({ [u \in Uploads |-> IF u = 1 THEN b ELSE << BadPart >>] : b \in OrderBodies })

Next ==
    \/ \E u \in Uploads :
          \/ ParseError(u)
          \/ ReadPanic(u)
          \/ ReadWalletField(u)
          \/ ReadFileField(u)
          \/ SkipField(u)
          \/ Reject(u)
          \/ Send(u)
          \/ IpfsFail(u)
          \/ IpfsOk(u)
          \/ Lock(u)
          \/ Push(u)
          \/ Respond(u)
    \/ \E l \in Lookups :
          \/ GetLock(l)
          \/ GetRespond(l)

Spec == Init /\ [][Next]_vars

SpecIngest == InitIngest /\ [][Next]_vars

SpecOrder == InitOrder /\ [][Next]_vars

\* the steps upload_report takes by itself once its input is there: reading
\* the body, validating, posting the form, and everything after the IPFS
\* API's answer (lines 52-145 and 190-212)
UploadStep(u) ==
    \/ ParseError(u)
    \/ ReadPanic(u)
    \/ ReadWalletField(u)
    \/ ReadFileField(u)
    \/ SkipField(u)
    \/ Reject(u)
    \/ Send(u)
    \/ Lock(u)
    \/ Push(u)
    \/ Respond(u)

\* the steps of get_reports (lines 220-253)
LookupStep(l) == GetLock(l) \/ GetRespond(l)

\* lines 263-281: the server's workers keep polling every handler that can
\* go on; nothing makes the IPFS API answer (IpfsFail and IpfsOk are left
\* unfair: the await of line 145 has no timeout)
Fairness ==
    /\ \A u \in Uploads : WF_vars(UploadStep(u))
    /\ \A l \in Lookups : WF_vars(LookupStep(l))

SpecLive == Init /\ [][Next]_vars /\ Fairness

TypeOK ==
    /\ lock \in { NoHolder } \cup { UploadHolder(u) : u \in Uploads }
                 \cup { LookupHolder(l) : l \in Lookups }
    /\ \A u \in Uploads : pc[u] \in { "parts", "awaitIpfs", "lock", "push",
                                      "respond", "done", "panicked" }
    /\ \A l \in Lookups : gpc[l] \in { "start", "read", "done" }


\* ------------------------------------------------------------------ what the claims speak of
\* the owner an upload was validated for
Owner(u) == Get(target_wallet_address[u])

\* the filename the client declared on the (last) file field of the body
FileFieldIndexes(b) == { i \in 1..Len(b) : b[i].ok /\ b[i].name = "file" }
LastFileField(b) == b[CHOOSE i \in FileFieldIndexes(b) : \A j \in FileFieldIndexes(b) : j <= i]
ClientFileName(u) ==
    IF FileFieldIndexes(body[u]) = { } THEN None ELSE LastFileField(body[u]).filename

\* the storage backend answered upload u with a success status and a
\* non-empty string Hash
HashFields(u) ==
    { f \in Get(ipfsRes[u]).body.fields : f.name = "Hash" /\ f.t = "str" /\ f.v # "" }
StoreConfirmed(u) ==
    /\ IsSome(ipfsRes[u])
    /\ Get(ipfsRes[u]).sent
    /\ Get(ipfsRes[u]).status \in 200..299
    /\ Get(ipfsRes[u]).body.valid
    /\ HashFields(u) # { }
StoreFailed(u) == IsSome(ipfsRes[u]) /\ ~StoreConfirmed(u)
BackendHash(u) == (CHOOSE f \in HashFields(u) : TRUE).v

\* the uploads that pushed an entry for owner w
PushedFor(w) ==
    { u \in Uploads : appendedAt[u] # 0 /\ IsSome(target_wallet_address[u]) /\ Owner(u) = w }

Sequence(w) == IF w \in DOMAIN reports THEN reports[w] ELSE << >>

\* ------------------------------------------------------------------ C1
\* C1: every (contentId, filename) entry in any owner's sequence was pushed
\* by an upload that had posted that filename to the storage backend and had
\* got back a success status with that exact non-empty Hash.
C1_EntryHasConfirmedStore ==
    \A w \in DOMAIN reports : \A i \in 1..Len(reports[w]) :
        \E u \in PushedFor(w) :
            /\ appendedAt[u] = i
            /\ StoreConfirmed(u)
            /\ reports[w][i][1] = BackendHash(u)
            /\ reports[w][i][1] # ""
            /\ Len(ipfsReq[u]) = 1
            /\ ipfsReq[u][1].file_name = reports[w][i][2]
            /\ Some(reports[w][i][2]) = ClientFileName(u)

C1_Witness ==
    \E w \in DOMAIN reports : Len(reports[w]) = 2 /\ reports[w][1] # reports[w][2]

\* ------------------------------------------------------------------ C2
\* C2: two uploads for the same owner that the storage backend both
\* confirmed, in whatever interleaving, both answer 200 with success, and
\* once both have answered the owner's sequence holds each of the two
\* artifacts exactly once: at two different positions, with no entry that
\* no upload accounts for.
C2_NoLostUpdate ==
    \A u1 \in Uploads : \A u2 \in Uploads \ { u1 } :
        ( /\ pc[u1] = "done" /\ pc[u2] = "done"
          /\ StoreConfirmed(u1) /\ StoreConfirmed(u2)
          /\ Owner(u1) = Owner(u2) )
        => /\ Get(resp[u1]).status = 200 /\ Get(resp[u1]).success
           /\ Get(resp[u2]).status = 200 /\ Get(resp[u2]).success
           /\ appendedAt[u1] # 0 /\ appendedAt[u2] # 0
           /\ appendedAt[u1] # appendedAt[u2]
           /\ Len(Sequence(Owner(u1))) = Cardinality(PushedFor(Owner(u1)))
           /\ \A u \in { u1, u2 } :
                 /\ appendedAt[u] <= Len(Sequence(Owner(u)))
                 /\ Sequence(Owner(u))[appendedAt[u]]
                        = << BackendHash(u), Get(ClientFileName(u)) >>

C2_Witness ==
    \E u1 \in Uploads : \E u2 \in Uploads \ { u1 } :
        /\ pc[u1] = "done" /\ pc[u2] = "done"
        /\ StoreConfirmed(u1) /\ StoreConfirmed(u2)
        /\ Owner(u1) = Owner(u2)
        /\ appendedAt[u1] = 2 /\ appendedAt[u2] = 1
        /\ Len(reports[Owner(u1)]) = 2

\* ------------------------------------------------------------------ C3
\* the lookups that locked the index after upload u had answered 200, for
\* u's owner, and have answered
LookupsAfter(u) ==
    { l \in Lookups : /\ gpc[l] = "done"
                      /\ u \in before[l]
                      /\ wallet_address[l] = Owner(u) }

\* C3 as stated: a lookup for the owner performed after a successful
\* upload's response returns a sequence whose last element is that upload's
\* artifact.
C3_LastElementIsUpload ==
    \A u \in Uploads : \A l \in LookupsAfter(u) :
        LET list == Get(gresp[l]).reports
        IN  /\ list # << >>
            /\ list[Len(list)] = ReportEntry(BackendHash(u), Get(ClientFileName(u)))

\* C3 amended: the returned sequence holds that upload's artifact at the
\* position where the upload pushed it, and that is the last position
\* whenever no other upload for the owner pushed after it before the lookup
\* locked the index.
C3_LookupHoldsUpload ==
    \A u \in Uploads : \A l \in LookupsAfter(u) :
        LET list == Get(gresp[l]).reports
        IN  /\ appendedAt[u] \in 1..Len(list)
            /\ list[appendedAt[u]] = ReportEntry(BackendHash(u), Get(ClientFileName(u)))
            /\ ( ~ \E v \in before[l] \cap PushedFor(Owner(u)) :
                       appendedAt[v] > appendedAt[u] )
               => appendedAt[u] = Len(list)

C3_Witness ==
    \E u \in Uploads : \E l \in LookupsAfter(u) :
        /\ Len(Get(gresp[l]).reports) = 2
        /\ appendedAt[u] = 2
        /\ Get(gresp[l]).reports[1] # Get(gresp[l]).reports[2]

\* ------------------------------------------------------------------ C4
\* C4: an upload whose storage step failed (no connection, a non-success
\* status, a body that is no JSON or has no non-empty string Hash) answers
\* 500 with success false, never pushes an entry, and no step of it changes
\* the index.
C4_FailedStoreAnswer ==
    \A u \in Uploads :
        StoreFailed(u)
        => /\ pc[u] = "done"
           /\ IsSome(resp[u])
           /\ Get(resp[u]).status = 500
           /\ ~Get(resp[u]).success
           /\ appendedAt[u] = 0
           /\ lock # UploadHolder(u)
           /\ \A w \in DOMAIN reports :
                 Len(reports[w]) = Cardinality(PushedFor(w) \ { u })

C4_FailedStoreLeavesIndex ==
    [](C4_FailedStoreAnswer)
    /\ [][ \A u \in Uploads :
              (StoreFailed(u)' /\ << pc[u], resp[u], ipfsRes[u] >>' # << pc[u], resp[u], ipfsRes[u] >>)
              => reports' = reports ]_vars

C4_Witness ==
    \E u \in Uploads : \E v \in Uploads \ { u } :
        /\ StoreFailed(u)
        /\ Get(ipfsRes[u]).sent /\ Get(ipfsRes[u]).status = 200
        /\ Get(resp[u]).status = 500
        /\ IsSome(target_wallet_address[v]) /\ Owner(v) = Owner(u)
        /\ appendedAt[v] = 1


\* ------------------------------------------------------------------ ingest claims
\* the handler read upload u's body to its end: no part was malformed, no
\* field read failed, and validation has run
Drained(u) ==
    /\ pos[u] = Len(body[u])
    /\ pc[u] \notin { "parts", "panicked" }
    /\ \A i \in 1..Len(body[u]) : body[u][i].ok

\* the body delivers content for the identifier field
OwnerDelivered(b) ==
    \E i \in 1..Len(b) : b[i].ok /\ b[i].name = "targetWalletAddress" /\ b[i].chunks # << >>

\* the body's file field carries a filename
HasFileName(b) == FileFieldIndexes(b) # { } /\ IsSome(LastFileField(b).filename)

RejectedWith(u, m) ==
    /\ pc[u] = "done"
    /\ IsSome(resp[u])
    /\ Get(resp[u]).status = 400
    /\ ~Get(resp[u]).success
    /\ Get(resp[u]).message = m

\* the first missing field's diagnostic, in the order filename, bytes, owner
FirstMissing(fn, fd, twa) ==
    IF fn = None THEN MsgNoName
    ELSE IF fd = None THEN MsgNoData
    ELSE IF twa = None THEN MsgNoWallet
    ELSE "none"

NothingRecordedBy(u) ==
    /\ appendedAt[u] = 0
    /\ lock # UploadHolder(u)
    /\ \A w \in DOMAIN reports : Len(reports[w]) = Cardinality(PushedFor(w) \ { u })

\* ------------------------------------------------------------------ C5
\* C5: an upload whose body, read to its end, has no file field is rejected
\* with 400 and the missing-filename diagnostic whether or not the owner was
\* delivered; a rejection for a missing field names the first missing one in
\* the order filename, file bytes, owner; the storage backend is not
\* contacted.
C5_NoFileFieldRejected ==
    \A u \in Uploads :
        Drained(u)
        => /\ ~HasFileName(body[u])
                  => RejectedWith(u, MsgNoName) /\ ipfsReq[u] = << >>
           /\ IF FirstMissing(file_name[u], file_data[u], target_wallet_address[u]) = "none"
              THEN pc[u] = "done" => Get(resp[u]).status # 400
              ELSE /\ RejectedWith(u, FirstMissing(file_name[u], file_data[u],
                                                   target_wallet_address[u]))
                   /\ ipfsReq[u] = << >>

C5_Witness ==
    \E u \in Uploads :
        /\ Drained(u)
        /\ FileFieldIndexes(body[u]) = { }
        /\ OwnerDelivered(body[u])
        /\ RejectedWith(u, MsgNoName)

\* ------------------------------------------------------------------ C6
\* C6: an upload whose body, read to its end, has a file field with a
\* filename but delivers no owner identifier is rejected with 400 and the
\* owner-required diagnostic; the storage backend is not contacted and the
\* upload records nothing in the index.
C6_NoOwnerRejected ==
    \A u \in Uploads :
        (Drained(u) /\ HasFileName(body[u]) /\ ~OwnerDelivered(body[u]))
        => /\ RejectedWith(u, MsgNoWallet)
           /\ ipfsReq[u] = << >>
           /\ NothingRecordedBy(u)

C6_Witness ==
    \E u \in Uploads :
        /\ Drained(u)
        /\ HasFileName(body[u])
        /\ LastFileField(body[u]).chunks # << >>
        /\ ~OwnerDelivered(body[u])
        /\ RejectedWith(u, MsgNoWallet)

\* ------------------------------------------------------------------ C7
\* C7: an upload that supplies a filename but for which no file bytes were
\* received is rejected with 400 and the file-bytes diagnostic, and the
\* storage backend is not contacted.
C7_NoBytesRejected ==
    \A u \in Uploads :
        ( /\ Drained(u)
          /\ HasFileName(body[u])
          /\ ExtendAll(LastFileField(body[u]).chunks) = << >> )
        => RejectedWith(u, MsgNoData) /\ ipfsReq[u] = << >>

\* ------------------------------------------------------------------ C8
\* the last part the handler took up is an identifier or file field whose
\* read failed
ReadErrorHit(u) ==
    /\ pos[u] >= 1
    /\ LET p == body[u][pos[u]]
       IN  /\ p.ok
           /\ p.fails
           /\ \/ p.name = "file"
              \/ p.name = "targetWalletAddress" /\ p.chunks = << >>

\* C8: an error while reading the chunks of the identifier field or of the
\* file field ends the request with a 400 rejection (success false) that
\* writes nothing to the index.
C8_ReadErrorRejected ==
    \A u \in Uploads :
        ReadErrorHit(u)
        => /\ pc[u] = "done"
           /\ IsSome(resp[u])
           /\ Get(resp[u]).status = 400
           /\ ~Get(resp[u]).success
           /\ NothingRecordedBy(u)

\* ------------------------------------------------------------------ C9
\* the uploads whose entries for l's wallet were in the index when l locked it
RecordedBefore(l) == before[l] \cap PushedFor(wallet_address[l])

\* C9: a lookup answers 200 with success true; for an owner with nothing
\* recorded it returns an empty array and a non-null message, otherwise
\* exactly the owner's artifacts in insertion order with a null message.
C9_LookupAnswer ==
    \A l \in Lookups :
        gpc[l] = "done"
        => LET r == Get(gresp[l])
           IN  /\ r.status = 200
               /\ r.success
               /\ Len(r.reports) = Cardinality(RecordedBefore(l))
               /\ \A u \in RecordedBefore(l) :
                     /\ appendedAt[u] \in 1..Len(r.reports)
                     /\ r.reports[appendedAt[u]]
                            = ReportEntry(BackendHash(u), Get(ClientFileName(u)))
               /\ RecordedBefore(l) = { } => r.reports = << >> /\ r.message # None
               /\ RecordedBefore(l) # { } => r.message = None

C9_Witness ==
    \E l \in Lookups :
        /\ gpc[l] = "done"
        /\ Cardinality(RecordedBefore(l)) = 2
        /\ Get(gresp[l]).reports[1] # Get(gresp[l]).reports[2]
        /\ Get(gresp[l]).message = None

\* ------------------------------------------------------------------ C10
\* the answer of an upload that pushed: 200, success, the pushed entry's CID
\* (the backend's Hash) and the client's filename
SuccessAnswer(u) ==
    /\ Get(resp[u]).status = 200
    /\ Get(resp[u]).success
    /\ appendedAt[u] \in 1..Len(Sequence(Owner(u)))
    /\ Sequence(Owner(u))[appendedAt[u]]
           = << Get(Get(resp[u]).cid), Get(Get(resp[u]).file_name) >>
    /\ Get(resp[u]).cid = Some(BackendHash(u))
    /\ Get(resp[u]).file_name = ClientFileName(u)

FailureAnswer(u) ==
    /\ Get(resp[u]).status \in { 400, 500 }
    /\ ~Get(resp[u]).success
    /\ appendedAt[u] = 0

\* C10: an upload answers 200 with success true exactly when it pushed one
\* artifact, whose CID and filename the answer carries; every other outcome
\* of an upload is a 400 or 500 answer with success false and no push.
C10_EveryOutcome ==
    \A u \in Uploads :
        pc[u] \in { "done", "panicked" }
        => /\ IsSome(resp[u])
           /\ SuccessAnswer(u) \/ FailureAnswer(u)
           /\ \A w \in DOMAIN reports : Len(reports[w]) = Cardinality(PushedFor(w))

\* the same for the uploads that were answered at all
C10_AnsweredOutcome ==
    \A u \in Uploads :
        IsSome(resp[u])
        => /\ SuccessAnswer(u) \/ FailureAnswer(u)
           /\ \A w \in DOMAIN reports : Len(reports[w]) = Cardinality(PushedFor(w))

\* ------------------------------------------------------------------ C11
\* the handler is suspended at an I/O wait: for the next part or chunk of
\* the body, or for the storage backend's answer
UploadSuspended(u) == pc[u] \in { "parts", "awaitIpfs" }

\* C11: no handler holds the index lock while it is suspended at an I/O
\* wait; an upload holds it only from its locked append to its return, a
\* lookup only from its locked read to its return, and a handler that has
\* returned or has not yet asked for the lock does not hold it.
C11_NoLockAcrossWait ==
    /\ \A u \in Uploads :
          /\ UploadSuspended(u) => lock # UploadHolder(u)
          /\ lock = UploadHolder(u) <=> pc[u] \in { "push", "respond" }
    /\ \A l \in Lookups : lock = LookupHolder(l) <=> gpc[l] = "read"

C11_Witness ==
    \E u \in Uploads : \E v \in Uploads \ { u } :
        /\ lock = UploadHolder(u)
        /\ pc[u] = "push"
        /\ pc[v] = "awaitIpfs"

\* ------------------------------------------------------------------ C12
\* the step is upload u's locked append
Appends(u) == appendedAt[u] = 0 /\ appendedAt'[u] # 0

\* C12: within one owner the artifacts stand in the order in which their
\* locked appends completed: an append puts the upload's artifact behind
\* every artifact appended for that owner before it and leaves those where
\* they were, whichever request reached the server first.
C12_AppendOrder ==
    [][ \A u \in Uploads :
           Appends(u)
           => LET w == Owner(u)
              IN  /\ appendedAt'[u] = Len(reports'[w])
                  /\ reports'[w][appendedAt'[u]]
                         = << BackendHash(u), Get(ClientFileName(u)) >>
                  /\ \A v \in PushedFor(w) :
                        /\ appendedAt[v] < appendedAt'[u]
                        /\ reports'[w][appendedAt[v]]
                               = << BackendHash(v), Get(ClientFileName(v)) >> ]_vars

C12_Witness ==
    /\ appendedAt[1] = 2
    /\ appendedAt[2] = 1
    /\ Owner(1) = Owner(2)
    /\ reports[Owner(1)][1] # reports[Owner(1)][2]

\* ------------------------------------------------------------------ C13
\* two uploads pushed the same (contentId, filename) pair for one owner
SamePairTwice(u, v) ==
    /\ u # v
    /\ appendedAt[u] # 0 /\ appendedAt[v] # 0
    /\ Owner(u) = Owner(v)
    /\ BackendHash(u) = BackendHash(v)
    /\ ClientFileName(u) = ClientFileName(v)

\* C13: the index only grows: over every step each owner's sequence is a
\* prefix of what it is afterwards and no owner key disappears; nothing
\* removes or merges entries, so the same pair uploaded twice stands in the
\* owner's sequence twice.
C13_AppendOnly ==
    /\ [](\A u \in Uploads : \A v \in Uploads :
             SamePairTwice(u, v)
             => /\ appendedAt[u] # appendedAt[v]
                /\ \A x \in { u, v } :
                      /\ appendedAt[x] <= Len(reports[Owner(x)])
                      /\ reports[Owner(x)][appendedAt[x]]
                             = << BackendHash(x), Get(ClientFileName(x)) >>)
    /\ [][ \A w \in DOMAIN reports :
              /\ w \in DOMAIN reports'
              /\ Len(reports'[w]) >= Len(reports[w])
              /\ SubSeq(reports'[w], 1, Len(reports[w])) = reports[w] ]_vars

C13_Witness ==
    \E u \in Uploads : \E v \in Uploads :
        /\ SamePairTwice(u, v)
        /\ Len(reports[Owner(u)]) = 2
        /\ reports[Owner(u)][1] = reports[Owner(u)][2]

\* ------------------------------------------------------------------ C14
\* C14: with handlers scheduled fairly and the storage backend free never
\* to answer, every lookup gets the lock and answers; every upload gets as
\* far as its own request allows (it waits for the backend, or it has
\* ended); and every upload the backend has confirmed gets the lock and
\* answers.  No upload that waits for the backend, and none that failed,
\* keeps another request from the lock.
C14_OthersComplete ==
    /\ \A l \in Lookups : <>(gpc[l] = "done" /\ IsSome(gresp[l]))
    /\ \A u \in Uploads : <>(pc[u] \in { "awaitIpfs", "done", "panicked" })
    /\ \A u \in Uploads : (pc[u] = "lock") ~> (pc[u] = "done" /\ IsSome(resp[u]))

C14_Witness ==
    \E u \in Uploads : \E v \in Uploads \ { u } : \E l \in Lookups :
        /\ pc[u] = "awaitIpfs"
        /\ pc[v] = "done" /\ appendedAt[v] # 0 /\ IsSome(resp[v])
        /\ gpc[l] = "done" /\ IsSome(gresp[l])
        /\ v \in before[l]

\* ------------------------------------------------------------------ C15
\* the occurrences of the identifier field in a body, and the last of them
WalletFieldIndexes(b) == { i \in 1..Len(b) : b[i].ok /\ b[i].name = "targetWalletAddress" }
LastWalletField(b) ==
    b[CHOOSE i \in WalletFieldIndexes(b) : \A j \in WalletFieldIndexes(b) : j <= i]

\* the value a field carries: the decoding of its complete content
FieldValue(p) == from_utf8_lossy(ExtendAll(p.chunks))

\* C15: when the identifier field occurs more than once, the owner the
\* upload uses is the value of the last occurrence, an empty value
\* included.  (Stated for occurrences that arrive in at most one chunk each.)
C15_LastOccurrenceWins ==
    \A u \in Uploads :
        ( /\ Drained(u)
          /\ Cardinality(WalletFieldIndexes(body[u])) >= 2
          /\ \A i \in WalletFieldIndexes(body[u]) : Len(body[u][i].chunks) <= 1 )
        => target_wallet_address[u] = Some(FieldValue(LastWalletField(body[u])))

\* ------------------------------------------------------------------ C16
\* C16: an artifact is recorded under the decoding of the complete content
\* of the identifier field, in however many chunks it arrived, and the
\* bytes posted for it are all chunks of the file field in arrival order.
\* (Stated for bodies with one identifier field.)
C16_WholeContent ==
    \A u \in Uploads :
        ( /\ appendedAt[u] # 0
          /\ Cardinality(WalletFieldIndexes(body[u])) = 1 )
        => /\ Owner(u) = FieldValue(LastWalletField(body[u]))
           /\ FieldValue(LastWalletField(body[u])) \in DOMAIN reports
           /\ ipfsReq[u][1].bytes = ExtendAll(LastFileField(body[u]).chunks)

\* the file half of C16 alone
C16_FileBytesWhole ==
    \A u \in Uploads :
        ipfsReq[u] # << >>
        => ipfsReq[u][1].bytes = ExtendAll(LastFileField(body[u]).chunks)

\* ------------------------------------------------------------------ C17
\* how the ingest of upload u ended, once it has ended
RunResult(u) ==
    IF pc[u] = "panicked" THEN Panicked
    ELSE IF pc[u] = "done" /\ Get(resp[u]).status = 400 THEN Rejected(Get(resp[u]))
    ELSE Valid([twa |-> target_wallet_address[u], fd |-> file_data[u], fn |-> file_name[u]])

\* the body is one identifier field, one file field and unrecognized fields
OneOfEach(b) ==
    /\ \A i \in 1..Len(b) : b[i].ok
    /\ Cardinality(WalletFieldIndexes(b)) = 1
    /\ Cardinality(FileFieldIndexes(b)) = 1

\* the same fields in every arrival order
Arrangements(b) ==
    { [i \in 1..Len(b) |-> b[f[i]]] : f \in Permutations(1..Len(b)) }

WithoutOthers(b) ==
    SelectSeq(b, LAMBDA p : p.name \in { "targetWalletAddress", "file" })

\* C17: for a body of one identifier field, one file field and any
\* unrecognized fields, the way the upload's ingest ended (the validated
\* owner, filename and bytes, or the rejection) is what ingest gives for
\* every arrival order of these fields and for the body without the
\* unrecognized fields.
C17_OrderIrrelevant ==
    \A u \in Uploads :
        (pc[u] # "parts" /\ OneOfEach(body[u]))
        => \A b \in Arrangements(body[u]) \cup { WithoutOthers(body[u]) } :
              Ingest(b) = RunResult(u)

C17_Witness ==
    \E u \in Uploads :
        /\ OneOfEach(body[u])
        /\ Len(body[u]) = 3
        /\ body[u][1].name = "file"
        /\ body[u][2].name = "note"
        /\ pc[u] = "awaitIpfs"
        /\ RunResult(u).kind = "valid"
        /\ Ingest(WithoutOthers(body[u])) = RunResult(u)

\* ------------------------------------------------------------------ C18
\* the filename of the last file field among the parts the handler had
\* taken up when it answered
CapturedFileName(u) ==
    LET taken == SubSeq(body[u], 1, pos[u])
    IN  IF FileFieldIndexes(taken) = { } THEN None ELSE LastFileField(taken).filename

ErrorResponse(u) == IsSome(resp[u]) /\ Get(resp[u]).status # 200

\* C18: every error response of an upload has success false and a null
\* cid, and its file_name is the filename captured from a file field before
\* the failure (a failure by a malformed later part included), null only
\* when none was captured.
C18_ErrorEchoesFileName ==
    \A u \in Uploads :
        ErrorResponse(u)
        => /\ ~Get(resp[u]).success
           /\ Get(resp[u]).cid = None
           /\ Get(resp[u]).file_name = CapturedFileName(u)

\* the same for the error responses that no malformed part caused
C18_OtherErrorsEcho ==
    \A u \in Uploads :
        (ErrorResponse(u) /\ Get(resp[u]).message # MsgParse)
        => /\ ~Get(resp[u]).success
           /\ Get(resp[u]).cid = None
           /\ Get(resp[u]).file_name = CapturedFileName(u)

\* ------------------------------------------------------------------ C19
\* C19: an upload posts to the storage backend at most once, and only when
\* its body was read to the end and validation found the filename, the
\* bytes and the owner; once the backend step has failed (no connection, a
\* non-success status, no Hash) the upload has answered and has posted
\* exactly that one request.
C19_OneStoreRequest ==
    \A u \in Uploads :
        /\ Len(ipfsReq[u]) <= 1
        /\ ipfsReq[u] # << >>
              => /\ Drained(u)
                 /\ FirstMissing(file_name[u], file_data[u], target_wallet_address[u]) = "none"
                 /\ Ingest(body[u]).kind = "valid"
                 /\ ipfsReq[u][1] = IpfsForm(Get(Ingest(body[u]).filename),
                                              Get(Ingest(body[u]).bytes))
        /\ pc[u] \in { "awaitIpfs", "lock", "push", "respond" } => Len(ipfsReq[u]) = 1
        /\ StoreFailed(u)
              => /\ pc[u] = "done"
                 /\ IsSome(resp[u])
                 /\ Len(ipfsReq[u]) = 1

C19_Witness ==
    \E u \in Uploads :
        /\ StoreFailed(u)
        /\ ~Get(ipfsRes[u]).sent
        /\ pc[u] = "done"
        /\ Get(resp[u]).status = 500
        /\ Len(ipfsReq[u]) = 1

\* ------------------------------------------------------------------ C20
\* no owner key maps to an empty sequence
NoEmptySequence == \A w \in DOMAIN reports : reports[w] # << >>

\* C20: whenever no upload holds the lock (so in every state a lookup can
\* read) no owner key maps to an empty sequence, and a lookup's answer has
\* a non-null message exactly when its reports array is empty.
C20_NoEmptySequenceSeen ==
    /\ (\A u \in Uploads : lock # UploadHolder(u)) => NoEmptySequence
    /\ \A l \in Lookups :
          gpc[l] = "done"
          => (Get(gresp[l]).message # None <=> Get(gresp[l]).reports = << >>)

C20_Witness ==
    \E l \in Lookups : \E u \in Uploads :
        /\ gpc[l] = "done"
        /\ Get(gresp[l]).reports # << >>
        /\ Get(gresp[l]).message = None
        /\ u \notin before[l]
        /\ pc[u] = "push"
        /\ ~NoEmptySequence

====
